---- MODULE Spec2Model ----
(***************************************************************************)
(* A model of the `house` document store: a typed Store over two sled      *)
(* trees (`tree`: primary records, `meta`: term-lists and index keys),     *)
(* with create / update / update_multi / find / all / filter and the      *)
(* StrEquals query.  Keys and values are byte strings (sequences of        *)
(* 0..255); the sled transaction is a write set that is applied at commit. *)
(***************************************************************************)
EXTENDS Integers, Sequences, FiniteSets, TLC

\* ---------------------------------------------------------------- bounds
\* number of create/update/update_multi calls in a behaviour
MaxCalls == 2
\* identifiers a caller may pass to update: 0..MaxId
MaxId == 1

\* ------------------------------------------------------------- constants
\* u64::to_be_bytes gives [u8; 8]
IdLen == 8
\* bincode writes a length as a u64 (8 bytes, little endian), a u32 as 4
LenLen == 8
U32Len == 4

\* b"__house__/terms/"
TERMS_PREFIX == <<95, 95, 104, 111, 117, 115, 101, 95, 95, 47, 116, 101, 114, 109, 115, 47>>

\* ------------------------------------------------------- results, options
Ok(x) == [ok |-> TRUE, val |-> x]
Err == [ok |-> FALSE]
None == <<>>
Some(x) == <<x>>

\* ----------------------------------------------------------------- bytes
RECURSIVE ToBE(_, _)
ToBE(v, n) == IF n = 0 THEN <<>> ELSE Append(ToBE(v \div 256, n - 1), v % 256)

RECURSIVE FromBE(_)
FromBE(b) == IF b = <<>> THEN 0 ELSE FromBE(SubSeq(b, 1, Len(b) - 1)) * 256 + b[Len(b)]

RECURSIVE ToLE(_, _)
ToLE(v, n) == IF n = 0 THEN <<>> ELSE <<v % 256>> \o ToLE(v \div 256, n - 1)

RECURSIVE FromLE(_)
FromLE(b) == IF b = <<>> THEN 0 ELSE b[1] + 256 * FromLE(Tail(b))

u64_to_bytes(value) == ToBE(value, IdLen)

\* try_into::<[u8; 8]> fails unless the slice has exactly 8 bytes
bytes_to_u64(value) == IF Len(value) = IdLen THEN Ok(FromBE(value)) ELSE Err

IsPrefix(p, s) == Len(p) <= Len(s) /\ SubSeq(s, 1, Len(p)) = p

\* ----------------------------------------------------------------- codec
\* bincode: a Vec or String is its length (u64) followed by its elements.
RECURSIVE EncVecs(_)
EncVecs(vs) ==
    IF vs = <<>> THEN <<>>
    ELSE ToLE(Len(Head(vs)), LenLen) \o Head(vs) \o EncVecs(Tail(vs))

\* a length that cannot fit the remaining input is a decode error
ReadLen(buf) ==
    IF Len(buf) < LenLen THEN Err
    ELSE IF \E i \in 3..LenLen : buf[i] # 0 THEN Err
    ELSE [ok |-> TRUE, val |-> FromLE(SubSeq(buf, 1, 2)),
          rest |-> SubSeq(buf, LenLen + 1, Len(buf))]

ReadBytes(buf) ==
    LET l == ReadLen(buf) IN
    IF ~l.ok THEN Err
    ELSE IF Len(l.rest) < l.val THEN Err
    ELSE [ok |-> TRUE, val |-> SubSeq(l.rest, 1, l.val),
          rest |-> SubSeq(l.rest, l.val + 1, Len(l.rest))]

RECURSIVE DecVecs(_, _)
DecVecs(buf, n) ==
    IF n = 0 THEN [ok |-> TRUE, val |-> <<>>, rest |-> buf]
    ELSE LET h == ReadBytes(buf) IN
         IF ~h.ok THEN Err
         ELSE LET t == DecVecs(h.rest, n - 1) IN
              IF ~t.ok THEN Err
              ELSE [ok |-> TRUE, val |-> <<h.val>> \o t.val, rest |-> t.rest]

\* utils::serialize(&new_terms) for new_terms: Vec<Vec<u8>>
serialize_terms(terms) == ToLE(Len(terms), LenLen) \o EncVecs(terms)

\* utils::deserialize::<Vec<Vec<u8>>>
deserialize_terms(bytes) ==
    LET l == ReadLen(bytes) IN
    IF ~l.ok THEN Err
    ELSE LET r == DecVecs(l.rest, l.val) IN
         IF ~r.ok THEN Err ELSE Ok(r.val)

\* ---------------------------------------------------------------- records
\* The record type T: a struct of its indexed terms (field name, raw value)
\* and one unindexed field, as Book has title and page_count.
Term(f, v) == [field |-> f, value |-> v]
Record(ts, n) == [terms |-> ts, page_count |-> n]

TermAbc == Term(<<97>>, <<98, 99>>)
TermAb == Term(<<97>>, <<98>>)
TermAb_c == Term(<<97, 98>>, <<99>>)
TermReserved == Term(TERMS_PREFIX, <<>>)

Records ==
    { Record(<<TermAbc>>, 0),
      Record(<<TermAb>>, 0),
      Record(<<TermAbc, TermAb>>, 0),
      Record(<<TermAb, TermAbc>>, 1),
      Record(<<TermAb, TermAb_c>>, 0),
      Record(<<TermReserved>>, 0) }

\* the records update_multi is called with in a batch of two: the first
\* object's record and the second object's
BatchFirst == Record(<<TermAbc>>, 0)
BatchSecond == Record(<<TermAb, TermAbc>>, 1)

\* Queryable::query_terms
query_terms(inner) == inner.terms

RECURSIVE TermVecs(_)
TermVecs(ts) ==
    IF ts = <<>> THEN <<>>
    ELSE <<Head(ts).field, Head(ts).value>> \o TermVecs(Tail(ts))

RECURSIVE VecTerms(_)
VecTerms(vs) ==
    IF vs = <<>> THEN <<>>
    ELSE <<Term(vs[1], vs[2])>> \o VecTerms(SubSeq(vs, 3, Len(vs)))

\* utils::serialize(inner)
serialize(inner) ==
    ToLE(Len(inner.terms), LenLen) \o EncVecs(TermVecs(inner.terms))
        \o ToLE(inner.page_count, U32Len)

\* utils::deserialize::<T>
deserialize(bytes) ==
    LET l == ReadLen(bytes) IN
    IF ~l.ok THEN Err
    ELSE LET r == DecVecs(l.rest, 2 * l.val) IN
         IF ~r.ok THEN Err
         ELSE IF Len(r.rest) < U32Len THEN Err
         ELSE Ok(Record(VecTerms(r.val), FromLE(SubSeq(r.rest, 1, U32Len))))

\* a key that leaves the identifier out: field ++ value ++ eight zero bytes
flatten_without_id(t, id) == t.field \o t.value \o u64_to_bytes(0)

\* Term::flatten_with_id
flatten_with_id(t, id) == t.field \o t.value \o u64_to_bytes(id)

\* inner.query_terms().into_iter().map(|t| t.flatten_with_id(id)).collect()
NewTerms(inner, id) ==
    [i \in 1..Len(query_terms(inner)) |-> flatten_with_id(query_terms(inner)[i], id)]

\* query::TERMS_PREFIX.into_iter().chain(&id_bytes)
TermListKey(id) == TERMS_PREFIX \o u64_to_bytes(id)

\* ---------------------------------------------------------------- tables
\* A sled tree: a set of <<key, value>> pairs with one value per key.
Keys(t) == {e[1] : e \in t}
Get(t, k) == IF k \in Keys(t) THEN Some((CHOOSE e \in t : e[1] = k)[2]) ELSE None
Insert(t, k, v) == {e \in t : e[1] # k} \cup {<<k, v>>}
Remove(t, k) == {e \in t : e[1] # k}

\* sled::IVec::default()
EmptyIVec == <<>>

\* A TransactionalTree: reads see the transaction's own writes first; a write
\* set maps a key to Some(value) (insert) or None (remove).
TxGet(base, w, k) == IF k \in Keys(w) THEN Get(w, k)[1] ELSE Get(base, k)
TxInsert(w, k, v) == Insert(w, k, Some(v))

\* the tree after the transaction's writes are applied
Applied(base, w) ==
    {e \in base : e[1] \notin Keys(w)} \cup {<<e[1], e[2][1]>> : e \in {x \in w : x[2] # None}}

\* sled::Batch: a map from key to Some(value) or None; a later write to a key
\* replaces an earlier one.
RECURSIVE BatchRemoveAll(_, _)
BatchRemoveAll(batch, terms) ==
    IF terms = <<>> THEN batch
    ELSE BatchRemoveAll(Insert(batch, Head(terms), None), Tail(terms))

\* a batch in which a key once removed stays removed
RECURSIVE BatchInsertAllKeepRemoved(_, _)
BatchInsertAllKeepRemoved(batch, terms) ==
    IF terms = <<>> THEN batch
    ELSE BatchInsertAllKeepRemoved(
             IF Head(terms) \in Keys(batch) THEN batch
             ELSE Insert(batch, Head(terms), Some(EmptyIVec)),
             Tail(terms))

RECURSIVE BatchInsertAll(_, _)
BatchInsertAll(batch, terms) ==
    IF terms = <<>> THEN batch
    ELSE BatchInsertAll(Insert(batch, Head(terms), Some(EmptyIVec)), Tail(terms))

\* TransactionalTree::apply_batch
ApplyBatch(w, batch) == {e \in w : e[1] \notin Keys(batch)} \cup batch

\* ------------------------------------------------------------------ state
VARIABLES
    tree,     \* Store.tree: the primary table, as committed
    meta,     \* Store.meta: term-lists and index keys, as committed
    idgen,    \* the engine's identifier counter (db.generate_id)
    tx,       \* the create/update_multi call in flight and its transaction
    queue,    \* create calls of other threads that hold an identifier and
              \* wait for the engine to run their transaction
    ret,      \* what the last finished create/update/update_multi returned
    pre,      \* the committed tables when the call in flight (or last) began
    last,     \* per identifier, the record most recently written with success
    created,  \* the identifiers create has returned
    fresh,    \* those of them no update has been applied to since
    calls,    \* number of calls begun
    results,  \* a query::Results in a caller's hands (after filter)
    out       \* what the last Results::first / Results::all returned

vars == <<tree, meta, idgen, tx, queue, ret, pre, last, created, fresh, calls, results, out>>

Ids == 0..MaxCalls
Object(id, inner) == [id |-> id, inner |-> inner]
Objects == {Object(id, r) : id \in 0..MaxId, r \in Records}

Idle == [pc |-> "idle"]

\* StrEquals(field, value) queries a caller may issue
Queries ==
    { Term(<<97>>, <<98, 99>>), Term(<<97>>, <<98>>), Term(<<97, 98>>, <<99>>),
      Term(TERMS_PREFIX, <<>>) }

Init ==
    /\ tree = {}
    /\ meta = {}
    /\ idgen = 0
    /\ tx = Idle
    /\ queue = {}
    /\ ret = None
    /\ pre = [tree |-> {}, meta |-> {}, last |-> [i \in Ids |-> None]]
    /\ last = [i \in Ids |-> None]
    /\ created = {}
    /\ fresh = {}
    /\ calls = 0
    /\ results = None
    /\ out = None

\* find without the absent case: a missing record is an error
find_or_error(id) ==
    LET got == Get(tree, u64_to_bytes(id)) IN
    IF got = None THEN Err
    ELSE LET d == deserialize(got[1]) IN
         IF ~d.ok THEN Err ELSE Ok(Some(Object(id, d.val)))

\* ---------------------------------------------------------------- readers
\* Store::find
find(id) ==
    LET got == Get(tree, u64_to_bytes(id)) IN
    IF got = None THEN Ok(None)
    ELSE LET d == deserialize(got[1]) IN
         IF ~d.ok THEN Err ELSE Ok(Some(Object(id, d.val)))

\* a matching_ids that decodes the last 8 bytes of every key the scan yields
matching_ids_trailing(field, value) ==
    LET prefix == field \o value
        trailing(key) == SubSeq(key, Len(key) - IdLen + 1, Len(key))
    IN  {FromBE(trailing(key)) :
            key \in {k \in Keys(meta) : IsPrefix(prefix, k) /\ Len(k) >= IdLen}}

\* StrEquals::matching_ids
matching_ids(field, value) ==
    LET prefix == field \o value
        prefix_len == Len(prefix)
        rest(key) == SubSeq(key, prefix_len + 1, Len(key))
    IN  {bytes_to_u64(rest(key)).val :
            key \in {k \in Keys(meta) : IsPrefix(prefix, k) /\ bytes_to_u64(rest(k)).ok}}

\* ----------------------------------------------------------------- create
\* let id = self.db.generate_id()?; then the transaction closure starts.
\* The caller is done with an earlier query's Results when it makes a call.
CreateCall(inner) ==
    /\ tx.pc = "idle"
    /\ results = None
    /\ out = None
    /\ calls < MaxCalls
    /\ idgen' = idgen + 1
    /\ tx' = [pc |-> "c_serialize", op |-> "create",
              objects |-> <<Object(idgen, inner)>>, k |-> 1,
              wtree |-> {}, wmeta |-> {}, attempt |-> 1]
    /\ pre' = [tree |-> tree, meta |-> meta, last |-> last]
    /\ ret' = None
    /\ calls' = calls + 1
    /\ results' = None
    /\ out' = None
    /\ UNCHANGED <<queue, tree, meta, last, created, fresh>>

\* generate_id()? returns the engine's error before any transaction
CreateIdFail(inner) ==
    /\ tx.pc = "idle"
    /\ results = None
    /\ out = None
    /\ calls < MaxCalls
    /\ ret' = Some([op |-> "create", ok |-> FALSE, k |-> 0, dirty |-> FALSE])
    /\ pre' = [tree |-> tree, meta |-> meta, last |-> last]
    /\ calls' = calls + 1
    /\ results' = None
    /\ out' = None
    /\ UNCHANGED <<queue, tree, meta, idgen, tx, last, created, fresh>>

\* serialized_inner, new_terms, serialized_new_terms
CreateSerialize ==
    /\ tx.pc = "c_serialize"
    /\ LET o == tx.objects[1]
           new_terms == NewTerms(o.inner, o.id)
       IN tx' = [tx EXCEPT !.pc = "c_tree"] @@
                [id_bytes |-> u64_to_bytes(o.id),
                 serialized_inner |-> serialize(o.inner),
                 new_terms |-> new_terms,
                 serialized_new_terms |-> serialize_terms(new_terms)]
    /\ UNCHANGED <<queue, tree, meta, idgen, ret, pre, last, created, fresh, calls, results, out>>

\* a create that stores the serialized term list as the primary record
CreateInsertTreeTerms ==
    /\ tx.pc = "c_tree"
    /\ tx' = [tx EXCEPT !.pc = "c_termlist",
                        !.wtree = TxInsert(@, tx.id_bytes, tx.serialized_new_terms)]
    /\ UNCHANGED <<queue, tree, meta, idgen, ret, pre, last, created, fresh, calls, results, out>>

\* tree.insert(&id_bytes, serialized_inner)?
CreateInsertTree ==
    /\ tx.pc = "c_tree"
    /\ tx' = [tx EXCEPT !.pc = "c_termlist",
                        !.wtree = TxInsert(@, tx.id_bytes, tx.serialized_inner)]
    /\ UNCHANGED <<queue, tree, meta, idgen, ret, pre, last, created, fresh, calls, results, out>>

\* meta.insert(TERMS_PREFIX ++ id_bytes, serialized_new_terms)?
CreateInsertTermList ==
    /\ tx.pc = "c_termlist"
    /\ tx' = [tx EXCEPT !.pc = "c_index",
                        !.wmeta = TxInsert(@, TermListKey(tx.objects[1].id),
                                           tx.serialized_new_terms)]
    /\ UNCHANGED <<queue, tree, meta, idgen, ret, pre, last, created, fresh, calls, results, out>>

RECURSIVE InsertAll(_, _)
InsertAll(w, terms) ==
    IF terms = <<>> THEN w
    ELSE InsertAll(TxInsert(w, Head(terms), EmptyIVec), Tail(terms))

\* for term in new_terms { meta.insert(term, IVec::default())? }
CreateInsertIndex ==
    /\ tx.pc = "c_index"
    /\ tx' = [tx EXCEPT !.pc = "commit", !.wmeta = InsertAll(@, tx.new_terms)]
    /\ UNCHANGED <<queue, tree, meta, idgen, ret, pre, last, created, fresh, calls, results, out>>

\* ----------------------------------------------------------- update_multi
BeginUpdate(objects) ==
    /\ tx.pc = "idle"
    /\ results = None
    /\ out = None
    /\ calls < MaxCalls
    /\ tx' = [pc |-> "u_serialize", op |-> "update",
              objects |-> objects, k |-> 1, wtree |-> {}, wmeta |-> {}, attempt |-> 1]
    /\ pre' = [tree |-> tree, meta |-> meta, last |-> last]
    /\ ret' = None
    /\ calls' = calls + 1
    /\ results' = None
    /\ out' = None
    /\ UNCHANGED <<queue, tree, meta, idgen, last, created, fresh>>

\* update(object): self.update_multi(std::slice::from_ref(object))
UpdateCall(object) == BeginUpdate(<<object>>)

\* update_multi(objects) with a batch of two objects
UpdateMultiCall(o1, o2) == BeginUpdate(<<o1, o2>>)

\* loop body, first half: id_bytes, serialized_inner, new_terms,
\* serialized_new_terms of objects[k]
UpdateSerialize ==
    /\ tx.pc = "u_serialize"
    /\ LET o == tx.objects[tx.k]
           new_terms == NewTerms(o.inner, o.id)
       IN tx' = [pc |-> "u_termlist", op |-> tx.op, objects |-> tx.objects,
                 k |-> tx.k, wtree |-> tx.wtree, wmeta |-> tx.wmeta,
                 attempt |-> tx.attempt,
                 id_bytes |-> u64_to_bytes(o.id),
                 serialized_inner |-> serialize(o.inner),
                 new_terms |-> new_terms,
                 serialized_new_terms |-> serialize_terms(new_terms)]
    /\ UNCHANGED <<queue, tree, meta, idgen, ret, pre, last, created, fresh, calls, results, out>>

\* the previous term-list, as meta.insert returns it inside the transaction
PrevTerms == TxGet(meta, tx.wmeta, TermListKey(tx.objects[tx.k].id))

\* let mut batch; if let Some(prev) = meta.insert(term-list key, new)? {
\*   for term in deserialize(prev)? { batch.remove(term) } }
UpdateInsertTermList ==
    /\ tx.pc = "u_termlist"
    /\ PrevTerms # None => deserialize_terms(PrevTerms[1]).ok
    /\ LET batch == IF PrevTerms = None THEN {}
                    ELSE BatchRemoveAll({}, deserialize_terms(PrevTerms[1]).val)
       IN tx' = [tx EXCEPT !.pc = "u_batch",
                           !.wmeta = TxInsert(@, TermListKey(tx.objects[tx.k].id),
                                              tx.serialized_new_terms)] @@
                [batch |-> batch]
    /\ UNCHANGED <<queue, tree, meta, idgen, ret, pre, last, created, fresh, calls, results, out>>

\* for term in new_terms { batch.insert(term, IVec::default()) };
\* meta.apply_batch(&batch)?; then the next object, or Ok(())
UpdateApplyBatch ==
    /\ tx.pc = "u_batch"
    /\ tx' = [pc |-> IF tx.k < Len(tx.objects) THEN "u_serialize" ELSE "commit",
              op |-> tx.op, objects |-> tx.objects,
              k |-> IF tx.k < Len(tx.objects) THEN tx.k + 1 ELSE tx.k,
              wtree |-> tx.wtree, attempt |-> tx.attempt,
              wmeta |-> ApplyBatch(tx.wmeta, BatchInsertAll(tx.batch, tx.new_terms))]
    /\ UNCHANGED <<queue, tree, meta, idgen, ret, pre, last, created, fresh, calls, results, out>>

\* ------------------------------------------------------------ transaction
\* the records the call has written, per identifier, once it succeeds
RECURSIVE Written(_, _)
Written(l, objects) ==
    IF objects = <<>> THEN l
    ELSE Written([l EXCEPT ![Head(objects).id] = Some(Head(objects).inner)], Tail(objects))

\* the identifiers the call in flight names
CallIds == {tx.objects[i].id : i \in 1..Len(tx.objects)}

\* the closure returned Ok(()): the engine applies the writes of both trees
Commit ==
    /\ tx.pc = "commit"
    /\ tree' = Applied(tree, tx.wtree)
    /\ meta' = Applied(meta, tx.wmeta)
    /\ ret' = Some([op |-> tx.op, ok |-> TRUE, id |-> tx.objects[1].id,
                    ids |-> CallIds, attempts |-> tx.attempt])
    /\ last' = Written(last, tx.objects)
    /\ created' = IF tx.op = "create" THEN created \cup CallIds ELSE created
    /\ fresh' = IF tx.op = "create" THEN fresh \cup CallIds ELSE fresh \ CallIds
    /\ tx' = Idle
    /\ UNCHANGED <<queue, idgen, pre, calls, results, out>>

\* writes made on the trees themselves, not through the transaction, stay
AbortedPartial == [tree |-> Applied(tree, tx.wtree), meta |-> Applied(meta, tx.wmeta)]

\* what an aborted transaction leaves in the two trees
Aborted == [tree |-> tree, meta |-> meta]

\* a `?` inside the closure (codec or engine error) aborts the transaction,
\* or the engine fails it: the call returns the error
TxAbort ==
    /\ tx.pc \notin {"idle"}
    /\ tree' = Aborted.tree
    /\ meta' = Aborted.meta
    /\ ret' = Some([op |-> tx.op, ok |-> FALSE, k |-> tx.k,
                    dirty |-> tx.wtree # {} \/ tx.wmeta # {}])
    /\ tx' = Idle
    /\ UNCHANGED <<queue, idgen, pre, last, created, fresh, calls, results, out>>

\* deserialize(&serialized_prev_terms)? fails on a stored term-list that
\* does not decode
UpdateDeserializeFail ==
    /\ tx.pc = "u_termlist"
    /\ PrevTerms # None
    /\ ~deserialize_terms(PrevTerms[1]).ok
    /\ tree' = Aborted.tree
    /\ meta' = Aborted.meta
    /\ ret' = Some([op |-> tx.op, ok |-> FALSE, k |-> tx.k,
                    dirty |-> tx.wtree # {} \/ tx.wmeta # {}])
    /\ tx' = Idle
    /\ UNCHANGED <<queue, idgen, pre, last, created, fresh, calls, results, out>>

\* ---------------------------------------------------------------- queries
\* Store::filter: Results { matching_ids, store }.  Calls are synchronous:
\* the caller queries between its write calls; what another thread could read
\* while a call is in flight is the committed tree and meta of every state.
Filter(q) ==
    /\ tx.pc = "idle"
    /\ results = None
    /\ out = None
    /\ results' = Some([query |-> q, matching_ids |-> matching_ids(q.field, q.value)])
    /\ out' = None
    /\ UNCHANGED <<queue, tree, meta, idgen, tx, ret, pre, last, created, fresh, calls>>

\* Results::first: matching_ids.into_iter().next().map(|id| store.find(id))
\* the HashSet yields its identifiers in an arbitrary order
First ==
    /\ tx.pc = "idle"
    /\ results # None
    /\ LET ids == results[1].matching_ids IN
       \/ /\ ids = {}
          /\ out' = Some([op |-> "first", query |-> results[1].query, ids |-> ids,
                          res |-> Ok(None)])
       \/ \E id \in ids :
            out' = Some([op |-> "first", query |-> results[1].query, ids |-> ids,
                         res |-> find(id)])
    /\ results' = None
    /\ UNCHANGED <<queue, tree, meta, idgen, tx, ret, pre, last, created, fresh, calls>>

\* Results::all: every identifier that resolves, in the set's order
ResolveAll(ids) == {find(id).val[1] : id \in {i \in ids : find(i).ok /\ find(i).val # None}}

All ==
    /\ tx.pc = "idle"
    /\ results # None
    /\ LET ids == results[1].matching_ids IN
       out' = Some([op |-> "all", query |-> results[1].query, ids |-> ids,
                    res |-> IF \E i \in ids : ~find(i).ok THEN Err
                            ELSE Ok(ResolveAll(ids))])
    /\ results' = None
    /\ UNCHANGED <<queue, tree, meta, idgen, tx, ret, pre, last, created, fresh, calls>>

\* the caller drops the Results or the value a query returned
Drop ==
    /\ tx.pc = "idle"
    /\ results # None \/ out # None
    /\ results' = None
    /\ out' = None
    /\ UNCHANGED <<queue, tree, meta, idgen, tx, ret, pre, last, created, fresh, calls>>

\* Store::find called by the caller
Find(id) ==
    /\ tx.pc = "idle"
    /\ results = None
    /\ out = None
    /\ out' = Some([op |-> "find", id |-> id, res |-> find(id)])
    /\ UNCHANGED <<queue, tree, meta, idgen, tx, ret, pre, last, created, fresh, calls, results>>

\* byte-lexicographic order of two byte strings
LexLess(a, b) ==
    \/ Len(a) < Len(b) /\ IsPrefix(a, b)
    \/ \E i \in 1..Len(a) :
         /\ i <= Len(b)
         /\ a[i] < b[i]
         /\ \A j \in 1..(i - 1) : a[j] = b[j]

RECURSIVE Reversed(_)
Reversed(a) == IF a = <<>> THEN <<>> ELSE Append(Reversed(Tail(a)), Head(a))

\* the order the keys would have if the least significant byte of the
\* identifier came first (a little-endian key)
KeyBeforeLowByteFirst(a, b) == LexLess(Reversed(a), Reversed(b))

\* the order a sled tree iterates its keys in
KeyBefore(a, b) == LexLess(a, b)

\* self.tree.iter(): the keys of the primary table in ascending order
RECURSIVE IterKeys(_)
IterKeys(ks) ==
    IF ks = {} THEN <<>>
    ELSE LET m == CHOOSE k \in ks : \A j \in ks \ {k} : KeyBefore(k, j)
         IN  <<m>> \o IterKeys(ks \ {m})

\* Store::all: each entry of the primary table, in key order, as an Object
StoreAllResult ==
    LET ks == IterKeys(Keys(tree))
        id(i) == bytes_to_u64(ks[i])
        inner(i) == deserialize(Get(tree, ks[i])[1])
    IN  IF \E i \in 1..Len(ks) : ~id(i).ok \/ ~inner(i).ok THEN Err
        ELSE Ok([i \in 1..Len(ks) |-> Object(id(i).val, inner(i).val)])

StoreAll ==
    /\ tx.pc = "idle"
    /\ results = None
    /\ out = None
    /\ out' = Some([op |-> "store_all", res |-> StoreAllResult])
    /\ UNCHANGED <<queue, tree, meta, idgen, tx, ret, pre, last, created, fresh, calls, results>>

\* ------------------------------------------------------------------- spec
Next ==
    \/ \E r \in Records : CreateCall(r)
    \/ \E r \in Records : CreateIdFail(r)
    \/ CreateSerialize
    \/ CreateInsertTree
    \/ CreateInsertTermList
    \/ CreateInsertIndex
    \/ \E o \in Objects : UpdateCall(o)
    \/ \E i1, i2 \in 0..MaxId :
          UpdateMultiCall(Object(i1, BatchFirst), Object(i2, BatchSecond))
    \/ UpdateSerialize
    \/ UpdateInsertTermList
    \/ UpdateApplyBatch
    \/ UpdateDeserializeFail
    \/ Commit
    \/ TxAbort
    \/ \E q \in Queries : Filter(q)
    \/ First
    \/ All
    \/ StoreAll
    \/ \E id \in Ids : Find(id)
    \/ Drop

Spec == Init /\ [][Next]_vars

\* ------------------------------------------------------ concurrent creates
\* The store handle is shared across threads. A thread's create draws its
\* identifier (db.generate_id is atomic) and then waits for the engine, which
\* runs one transaction closure at a time and may run a closure again when it
\* finds a write conflict at commit.
MaxAttempts == 2

\* a generate_id that hands out the counter's value and leaves it as it is
CreateGenerateReuse(inner) ==
    /\ calls < MaxCalls
    /\ idgen' = idgen
    /\ queue' = queue \cup {Object(idgen, inner)}
    /\ calls' = calls + 1
    /\ UNCHANGED <<tree, meta, tx, ret, pre, last, created, fresh, results, out>>

\* let id = self.db.generate_id()? in some thread, at any moment
CreateGenerate(inner) ==
    /\ calls < MaxCalls
    /\ idgen' = idgen + 1
    /\ queue' = queue \cup {Object(idgen, inner)}
    /\ calls' = calls + 1
    /\ UNCHANGED <<tree, meta, tx, ret, pre, last, created, fresh, results, out>>

\* the engine starts the transaction of one of the waiting creates
CreateEnter ==
    /\ tx.pc = "idle"
    /\ \E c \in queue :
        /\ tx' = [pc |-> "c_serialize", op |-> "create", objects |-> <<c>>, k |-> 1,
                  wtree |-> {}, wmeta |-> {}, attempt |-> 1]
        /\ queue' = queue \ {c}
    /\ pre' = [tree |-> tree, meta |-> meta, last |-> last]
    /\ ret' = None
    /\ results' = None
    /\ out' = None
    /\ UNCHANGED <<tree, meta, idgen, last, created, fresh, calls>>

\* a create whose closure draws the identifier: every run takes a new one
TxRetryNewId ==
    /\ tx.pc = "commit"
    /\ tx.op = "create"
    /\ tx.attempt < MaxAttempts
    /\ idgen' = idgen + 1
    /\ tx' = [pc |-> "c_serialize", op |-> "create",
              objects |-> <<Object(idgen, tx.objects[1].inner)>>, k |-> 1,
              wtree |-> {}, wmeta |-> {}, attempt |-> tx.attempt + 1]
    /\ UNCHANGED <<tree, meta, queue, ret, pre, last, created, fresh, calls, results, out>>

\* the engine finds a write conflict when it validates the transaction: it
\* drops the writes of this run and runs the closure again; id was drawn
\* before the transaction and is captured by the closure
TxRetry ==
    /\ tx.pc = "commit"
    /\ tx.op = "create"
    /\ tx.attempt < MaxAttempts
    /\ tx' = [pc |-> "c_serialize", op |-> "create", objects |-> tx.objects, k |-> 1,
              wtree |-> {}, wmeta |-> {}, attempt |-> tx.attempt + 1]
    /\ UNCHANGED <<tree, meta, idgen, queue, ret, pre, last, created, fresh, calls, results, out>>

ConcurrentNext ==
    \/ \E r \in Records : CreateGenerate(r)
    \/ CreateEnter
    \/ CreateSerialize
    \/ CreateInsertTree
    \/ CreateInsertTermList
    \/ CreateInsertIndex
    \/ TxRetry
    \/ Commit
    \/ TxAbort

SpecConcurrent == Init /\ [][ConcurrentNext]_vars

\* ------------------------------------------------- the primary table scan
\* Stores whose identifiers span several bytes of the key: the primary table,
\* term-lists and index after create has returned each identifier of a set,
\* for every set of these identifiers.
ScanIds == {0, 1, 255, 256, 257, 65536}
ScanRecord(id) == IF id % 2 = 0 THEN Record(<<TermAb>>, 0) ELSE Record(<<TermAbc>>, 1)

CreatedTree(S) == {<<u64_to_bytes(id), serialize(ScanRecord(id))>> : id \in S}
CreatedMeta(S) ==
    {<<TermListKey(id), serialize_terms(NewTerms(ScanRecord(id), id))>> : id \in S}
        \cup {<<NewTerms(ScanRecord(id), id)[1], EmptyIVec>> : id \in S}

ScanInit ==
    /\ \E S \in SUBSET ScanIds :
        /\ tree = CreatedTree(S)
        /\ meta = CreatedMeta(S)
        /\ last = [i \in ScanIds |-> IF i \in S THEN Some(ScanRecord(i)) ELSE None]
        /\ created = S
        /\ fresh = S
    /\ idgen = 65537
    /\ tx = Idle
    /\ queue = {}
    /\ ret = None
    /\ pre = [tree |-> tree, meta |-> meta, last |-> last]
    /\ calls = MaxCalls
    /\ results = None
    /\ out = None

ScanNext == StoreAll

SpecScan == ScanInit /\ [][ScanNext]_vars

\* ------------------------------------------------------------ properties
TermsOf(inner) == {query_terms(inner)[i] : i \in 1..Len(query_terms(inner))}

\* the identifiers whose most recently written record has the term q
Holders(q) == {id \in Ids : last[id] # None /\ q \in TermsOf(last[id][1])}

\* a key of the reserved term-list space
IsTermListKey(k) == Len(k) = Len(TERMS_PREFIX) + IdLen /\ IsPrefix(TERMS_PREFIX, k)

\* the index keys in meta whose trailing identifier is id
IndexKeysOf(id) ==
    {k \in Keys(meta) : /\ ~IsTermListKey(k)
                        /\ Len(k) >= IdLen
                        /\ SubSeq(k, Len(k) - IdLen + 1, Len(k)) = u64_to_bytes(id)}

Undecodable == {<<-1>>}

\* the keys stored in id's term-list record
StoredTermList(id) ==
    LET got == Get(meta, TermListKey(id)) IN
    IF got = None THEN {}
    ELSE LET d == deserialize_terms(got[1]) IN
         IF ~d.ok THEN Undecodable ELSE {d.val[i] : i \in 1..Len(d.val)}

\* a term, or a record, that stays outside the reserved term-list key space
CallerTerm(t) == ~IsPrefix(TERMS_PREFIX, t.field \o t.value)
CallerRecord(r) == r # None /\ \A t \in TermsOf(r[1]) : CallerTerm(t)

Returned(r) == r # None /\ r[1].ok
UpdateReturned == Returned(ret) /\ ret[1].op = "update"
CreateReturned == Returned(ret) /\ ret[1].op = "create"
Failed == ret # None /\ ~ret[1].ok

\* C1: for every (field, value), StrEquals(field, value).matching_ids is
\* exactly the set of identifiers whose most recently written record has the
\* term (field, value).  Stated for the (field, value) pairs outside the
\* reserved term-list key space.
IndexConsistency ==
    \A q \in {x \in Queries : CallerTerm(x)} :
        matching_ids(q.field, q.value) = Holders(q)

\* C2: after a successful update or update_multi naming an identifier that
\* create returned, find gives the identifier with the record just written.
UpdatePersists ==
    UpdateReturned =>
        \A id \in ret[1].ids \cap created :
            CallerRecord(last[id]) => find(id) = Ok(Some(Object(id, last[id][1])))

\* C3: find of an identifier create returned gives that identifier with the
\* record passed to create, as long as no update was applied to it.
CreateFindRoundTrip ==
    \A id \in fresh : find(id) = Ok(Some(Object(id, last[id][1])))

\* a create has returned an identifier, another identifier was updated since,
\* and find still resolves the first to a record with an unindexed field set
CreateFindWitness ==
    /\ UpdateReturned
    /\ \E id \in fresh :
        /\ id \notin ret[1].ids
        /\ last[id][1].page_count = 1
        /\ find(id) = Ok(Some(Object(id, last[id][1])))

\* C4: when an update changes the value of field f of an identifier from
\* v_old to v_new, StrEquals(f, v_old) no longer matches the identifier and
\* StrEquals(f, v_new) does.
UpdateRemovesStaleTerms ==
    UpdateReturned =>
        \A id \in ret[1].ids \cap created :
            pre.last[id] # None =>
                \A old \in TermsOf(pre.last[id][1]), new \in TermsOf(last[id][1]) :
                    (/\ old.field = new.field
                     /\ old.value # new.value
                     /\ old \notin TermsOf(last[id][1]))
                    => /\ id \notin matching_ids(old.field, old.value)
                       /\ id \in matching_ids(new.field, new.value)

\* C5: when create, update or update_multi returns an error, the primary
\* table and the meta table (term-lists and index keys) are what they were
\* before the call.
AtomicityOnFailure ==
    Failed => tree = pre.tree /\ meta = pre.meta

\* an update_multi failed on its second object, with writes of the first
\* object pending, on a store that already held records
AtomicityWitness ==
    /\ Failed
    /\ ret[1].op = "update"
    /\ ret[1].k = 2
    /\ ret[1].dirty
    /\ pre.tree # {}
    /\ pre.meta # {}

\* C6: in every state a reader can observe, an identifier has a primary
\* record exactly when it has a term-list and index keys, and these are the
\* ones derived from that primary record: no primary write without its index
\* and term-list writes, nor the reverse.  Stated for the identifiers written
\* with records outside the reserved term-list key space.
NoPartialWrite ==
    \A id \in {i \in Ids : last[i] = None \/ CallerRecord(last[i])} :
        IF Get(tree, u64_to_bytes(id)) = None
        THEN Get(meta, TermListKey(id)) = None /\ IndexKeysOf(id) = {}
        ELSE /\ find(id).ok
             /\ LET terms == NewTerms(find(id).val[1].inner, id)
                    keys == {terms[i] : i \in 1..Len(terms)}
                IN  /\ Get(meta, TermListKey(id)) # None
                    /\ StoredTermList(id) = keys
                    /\ IndexKeysOf(id) = keys

\* C7: for every identifier the keys stored in its term-list record are
\* exactly the index keys of the meta table whose trailing identifier it is.
\* Stated for the identifiers written with records outside the reserved
\* term-list key space.
TermListInvariant ==
    \A id \in {i \in Ids : last[i] = None \/ CallerRecord(last[i])} :
        StoredTermList(id) = IndexKeysOf(id)

\* the objects a Results::first or Results::all call returned
ReturnedObjects ==
    IF out = None \/ ~out[1].res.ok THEN {}
    ELSE IF out[1].op = "all" THEN out[1].res.val
    ELSE {out[1].res.val[i] : i \in 1..Len(out[1].res.val)}

\* C8, its stated case: after a create and an update of that one identifier
\* that changes f from v_old to v_new, filter(StrEquals(f, v_old)).all() is
\* empty and filter(StrEquals(f, v_new)).all() is exactly the identifier with
\* the updated record (which has the term (f, v_new)).
QueryResultsMatch ==
    (/\ out # None
     /\ out[1].op = "all"
     /\ UpdateReturned
     /\ \E id \in created :
         /\ ret[1].ids = {id}
         /\ \A i \in Ids \ {id} : last[i] = None)
    => \A id \in ret[1].ids :
         \A old \in TermsOf(pre.last[id][1]), new \in TermsOf(last[id][1]) :
             (/\ old.field = new.field
              /\ old.value # new.value
              /\ old \notin TermsOf(last[id][1]))
             => /\ out[1].query = old => out[1].res = Ok({})
                /\ out[1].query = new =>
                     /\ out[1].res = Ok({Object(id, last[id][1])})
                     /\ \A o \in ReturnedObjects : new \in TermsOf(o.inner)

\* C9: Results::first returns an object whenever some identifier of the
\* matching set resolves via find.  Stated for the queries outside the
\* reserved term-list key space.
FirstSkipsUnresolved ==
    (/\ out # None
     /\ out[1].op = "first"
     /\ CallerTerm(out[1].query)
     /\ \E id \in out[1].ids : find(id).ok /\ find(id).val # None)
    => out[1].res.ok /\ out[1].res.val # None

\* C10: after a successful update of an identifier that had no primary
\* record, find gives the identifier with the record passed to update and
\* StrEquals matches it for every term of that record.
UpdateCreatesUnknown ==
    UpdateReturned =>
        \A id \in ret[1].ids :
            (Get(pre.tree, u64_to_bytes(id)) = None /\ CallerRecord(last[id])) =>
                /\ find(id) = Ok(Some(Object(id, last[id][1])))
                /\ \A t \in TermsOf(last[id][1]) : id \in matching_ids(t.field, t.value)

\* C11: Store.all() returns exactly one Object per record of the primary
\* table, in ascending numeric order of the identifiers.
AllAscending ==
    (out # None /\ out[1].op = "store_all") =>
        /\ out[1].res.ok
        /\ LET objs == out[1].res.val IN
           /\ Len(objs) = Cardinality(tree)
           /\ \A kv \in tree : \E i \in 1..Len(objs) :
                /\ u64_to_bytes(objs[i].id) = kv[1]
                /\ serialize(objs[i].inner) = kv[2]
           /\ \A i, j \in 1..Len(objs) : i < j => objs[i].id < objs[j].id

\* all() has returned the objects of identifiers that differ in the second
\* and in the third lowest byte of the key
AllAscendingWitness ==
    /\ out # None
    /\ out[1].op = "store_all"
    /\ out[1].res.ok
    /\ {1, 255, 256, 65536} \subseteq {out[1].res.val[i].id : i \in 1..Len(out[1].res.val)}

\* C12: find(id) for an identifier with no primary record returns Ok(None),
\* never an error, and leaves the primary table, term-lists and index
\* unchanged.
FindAbsent ==
    [][(out' # out /\ out' # None /\ out'[1].op = "find") =>
          /\ tree' = tree
          /\ meta' = meta
          /\ Get(tree, u64_to_bytes(out'[1].id)) = None => out'[1].res = Ok(None)]_vars

\* find has answered for an identifier that has a term-list and index keys
\* (update established it) but no primary record
FindAbsentWitness ==
    /\ out # None
    /\ out[1].op = "find"
    /\ Get(tree, u64_to_bytes(out[1].id)) = None
    /\ Get(meta, TermListKey(out[1].id)) # None
    /\ tree # {}
    /\ out[1].res = Ok(None)

\* what a create of inner under id writes to the index table
CreateWrites(id, inner) ==
    LET new_terms == NewTerms(inner, id) IN
    InsertAll(TxInsert({}, TermListKey(id), serialize_terms(new_terms)), new_terms)

\* C13: every create call, run alone or concurrently with other creates,
\* holds an identifier no other create call holds or has returned, and no
\* create overwrites the primary record, term-list or index entries written
\* by another create.
UniqueIds ==
    /\ \A c, d \in queue : c.id = d.id => c = d
    /\ \A c \in queue : c.id \notin created
    /\ tx.pc # "idle" =>
         /\ tx.objects[1].id \notin created
         /\ \A c \in queue : c.id # tx.objects[1].id
    /\ \A id \in created :
         /\ <<u64_to_bytes(id), serialize(last[id][1])>> \in tree
         /\ Applied({}, CreateWrites(id, last[id][1])) \subseteq meta

\* a create drew identifier 0 and waited, another create drew 1 and committed
\* meanwhile, then the first one committed: both have returned
UniqueIdsWitness ==
    /\ created = {0, 1}
    /\ ret # None
    /\ ret[1].ok
    /\ ret[1].id = 0
    /\ pre.tree # {}
    /\ queue = {}

\* C19: when the engine runs create's closure again after a write conflict,
\* the call returns the one identifier drawn before the transaction, and the
\* tables hold what a single run writes for it: one primary record, one
\* term-list record and one index key per distinct term, and nothing else new.
CreateRetried ==
    (ret # None /\ ret[1].ok /\ ret[1].op = "create" /\ ret[1].attempts > 1) =>
        LET id == ret[1].id
            inner == last[id][1]
        IN  /\ idgen = calls
            /\ Get(pre.tree, u64_to_bytes(id)) = None
            /\ tree = Insert(pre.tree, u64_to_bytes(id), serialize(inner))
            /\ meta = Applied(pre.meta, CreateWrites(id, inner))
            /\ Cardinality(Keys(meta) \ Keys(pre.meta))
                 = Cardinality(IndexKeysOf(id) \cup {TermListKey(id)})

\* a create whose closure ran twice has returned, for a record of two terms
CreateRetriedWitness ==
    /\ ret # None
    /\ ret[1].ok
    /\ ret[1].op = "create"
    /\ ret[1].attempts > 1
    /\ Len(last[ret[1].id][1].terms) = 2
    /\ Cardinality(IndexKeysOf(ret[1].id)) = 2

\* C14: StrEquals(f, v).matching_ids contains an identifier only if its
\* record has a term whose field is exactly f and whose value is exactly v; a
\* term with another field never produces a match, also when the two
\* concatenations field ++ value are equal.  Stated for the results a filter
\* has handed out, for (f, v) outside the reserved term-list key space.
FieldValueBoundary ==
    (results # None /\ CallerTerm(results[1].query)) =>
        \A id \in results[1].matching_ids :
            /\ last[id] # None
            /\ \E t \in TermsOf(last[id][1]) :
                 /\ t.field = results[1].query.field
                 /\ t.value = results[1].query.value

\* C15: for a fixed field f, StrEquals(f, v).matching_ids never contains an
\* identifier on account of a term (f, v') with v a proper prefix of v': every
\* identifier in the result is decoded from the 8 bytes that follow f ++ v in
\* an index key, so the key f ++ v ++ big-endian(id) is in the index.
ValueEquality ==
    results # None =>
        \A id \in results[1].matching_ids :
            (results[1].query.field \o results[1].query.value \o u64_to_bytes(id))
                \in Keys(meta)

\* filter(StrEquals("a", "b")) has answered while an identifier has an index
\* key for ("a", "bc") and none for ("a", "b"): it is not in the result
ValueEqualityWitness ==
    /\ results # None
    /\ results[1].query = TermAb
    /\ \E id \in Ids :
        /\ flatten_with_id(TermAbc, id) \in Keys(meta)
        /\ flatten_with_id(TermAb, id) \notin Keys(meta)
        /\ id \notin results[1].matching_ids
    /\ results[1].matching_ids # {}

\* update or update_multi has just returned: no query was issued since
UpdateJustReturned == UpdateReturned /\ results = None /\ out = None

\* the keys stored in id's term-list record of the index table m
StoredTermListIn(m, id) ==
    LET got == Get(m, TermListKey(id)) IN
    IF got = None THEN {}
    ELSE LET d == deserialize_terms(got[1]) IN
         IF ~d.ok THEN Undecodable ELSE {d.val[i] : i \in 1..Len(d.val)}

\* the index keys derived from the record last written for id
NewKeys(id) ==
    LET new_terms == NewTerms(last[id][1], id) IN
    {new_terms[i] : i \in 1..Len(new_terms)}

\* C16: after an update, no key common to an object's stored term-list and
\* its newly derived terms is absent from the index; when the two are equal
\* as sets for every object of the call, the set of keys of the index table
\* is the one from before the call.
TermReorder ==
    UpdateJustReturned =>
        /\ \A id \in ret[1].ids :
             \A k \in StoredTermListIn(pre.meta, id) \cap NewKeys(id) : k \in Keys(meta)
        /\ (\A id \in ret[1].ids : StoredTermListIn(pre.meta, id) = NewKeys(id))
              => Keys(meta) = Keys(pre.meta)

\* an update has returned for an object whose two terms were stored in the
\* other order
TermReorderWitness ==
    /\ UpdateJustReturned
    /\ \E id \in ret[1].ids :
        /\ StoredTermListIn(pre.meta, id) = NewKeys(id)
        /\ Cardinality(NewKeys(id)) = 2
        /\ Get(pre.meta, TermListKey(id))
             # Some(serialize_terms(NewTerms(last[id][1], id)))
        /\ Get(meta, TermListKey(id))
             = Some(serialize_terms(NewTerms(last[id][1], id)))

\* C17: no index key derived from a term of a record equals a term-list key,
\* so index writes never overwrite or delete a term-list record, and no
\* StrEquals query returns an identifier on account of a term-list record:
\* the term-list record of every written identifier holds its record's index
\* keys, and a filter on the reserved prefix returns only identifiers whose
\* record has that term.
ReservedKeySpace ==
    /\ \A id \in Ids :
         last[id] # None =>
            /\ \A k \in NewKeys(id) : ~IsTermListKey(k)
            /\ Get(meta, TermListKey(id))
                 = Some(serialize_terms(NewTerms(last[id][1], id)))
    /\ (results # None /\ results[1].query = TermReserved) =>
         results[1].matching_ids \subseteq Holders(TermReserved)

\* every key of the table m that ends in the identifier's 8 bytes: its index
\* keys and its term-list key
KeysOfIn(m, id) ==
    {k \in Keys(m) : /\ Len(k) >= IdLen
                     /\ SubSeq(k, Len(k) - IdLen + 1, Len(k)) = u64_to_bytes(id)}

\* C18: update/update_multi on a set of identifiers leaves the primary
\* record, the term-list record and every index key of each other identifier
\* unchanged, also when the objects share a (field, value): no index key of
\* an updated object is a key of another identifier.
UpdateFrame ==
    UpdateJustReturned =>
        \A id \in Ids \ ret[1].ids :
            /\ Get(tree, u64_to_bytes(id)) = Get(pre.tree, u64_to_bytes(id))
            /\ Get(meta, TermListKey(id)) = Get(pre.meta, TermListKey(id))
            /\ KeysOfIn(meta, id) = KeysOfIn(pre.meta, id)
            /\ \A other \in ret[1].ids : NewKeys(other) \cap KeysOfIn(meta, id) = {}

\* an update has removed the key of ("a", "bc") of one identifier while
\* another identifier keeps its key of the same term
UpdateFrameWitness ==
    /\ UpdateJustReturned
    /\ \E id \in ret[1].ids : \E other \in Ids \ ret[1].ids :
        /\ flatten_with_id(TermAbc, id) \in Keys(pre.meta)
        /\ flatten_with_id(TermAbc, id) \notin Keys(meta)
        /\ flatten_with_id(TermAbc, other) \in Keys(pre.meta)
        /\ flatten_with_id(TermAbc, other) \in Keys(meta)

====
